---------------------------- MODULE Spec2Model ----------------------------
(***************************************************************************)
(* AssiGen: the intent parser (parse_tasks) and the per-language code      *)
(* composers (generate_python_code, generate_php_code, generate_js_code)   *)
(* of src/app.py, driven by generate_code, and the configuration loader    *)
(* (load_config, deep_merge) of src/modules/config_loader.py.              *)
(*                                                                         *)
(* Texts are TLA+ strings; TLC evaluates Len, SubSeq, Head, Tail and \o on *)
(* strings, so substring tests, lower-casing, replacement, splitting and   *)
(* joining are computed character by character as Python computes them.    *)
(*                                                                         *)
(* src/app.py is not valid Python as a whole (the api_integration entry of *)
(* FEATURE_HANDLERS lacks a comma and closes its string early; the body of *)
(* generate_js_code runs into pasted JavaScript and has no return).  Each   *)
(* function is modelled as its own text reads; the two broken places are    *)
(* modelled as tokenised, see FEATURE_HANDLERS_0 and generate_js_code.      *)
(***************************************************************************)
EXTENDS Integers, Sequences, FiniteSets, TLC

VARIABLES
    AI_MODELS,          \* module-level dict, src/app.py:8
    FEATURE_HANDLERS,   \* module-level dict, src/app.py:58
    task_input,         \* argument of the call in progress / last call
    api_key,            \* argument of the call in progress / last call
    params,             \* the dict parse_tasks returned
    result,             \* the value the call returned
    invoked,            \* the functions the call entered
    pc,                 \* "idle" | "parsed" | "done"
    log,                \* the finished calls of this process, oldest first
    requests,           \* the generation requests served concurrently
    config              \* the call of load_config (modules/config_loader.py)

vars == <<AI_MODELS, FEATURE_HANDLERS, task_input, api_key, params, result,
          invoked, pc, log, requests, config>>

(***************************************************************************)
(* Bounds of the model.                                                    *)
(***************************************************************************)
MaxWords == 2       \* words per generated task text
MaxCalls == 2       \* finished calls remembered in log
MaxRequests == 2    \* generation requests in progress at the same time
MaxKeys == 2        \* keys of the "environment" dict of a user configuration

(***************************************************************************)
(* Python's str and list operations, as far as the program uses them.      *)
(***************************************************************************)
Min(a, b) == IF a < b THEN a ELSE b

\* the positions at which k occurs in s
Occurrences(k, s) ==
    {i \in 1..(Len(s) - Len(k) + 1) : SubSeq(s, i, i + Len(k) - 1) = k}

\* k in s
In(k, s) == \E i \in 1..(Len(s) - Len(k) + 1) : SubSeq(s, i, i + Len(k) - 1) = k

SetMin(S) == CHOOSE m \in S : \A x \in S : m <= x

LowerChar(c) ==
    CASE c = "A" -> "a" [] c = "B" -> "b" [] c = "C" -> "c" [] c = "D" -> "d"
      [] c = "E" -> "e" [] c = "F" -> "f" [] c = "G" -> "g" [] c = "H" -> "h"
      [] c = "I" -> "i" [] c = "J" -> "j" [] c = "K" -> "k" [] c = "L" -> "l"
      [] c = "M" -> "m" [] c = "N" -> "n" [] c = "O" -> "o" [] c = "P" -> "p"
      [] c = "Q" -> "q" [] c = "R" -> "r" [] c = "S" -> "s" [] c = "T" -> "t"
      [] c = "U" -> "u" [] c = "V" -> "v" [] c = "W" -> "w" [] c = "X" -> "x"
      [] c = "Y" -> "y" [] c = "Z" -> "z" [] c = "Ä" -> "ä" [] c = "Ö" -> "ö"
      [] c = "Ü" -> "ü" [] OTHER -> c

UpperChar(c) ==
    CASE c = "a" -> "A" [] c = "b" -> "B" [] c = "c" -> "C" [] c = "d" -> "D"
      [] c = "e" -> "E" [] c = "f" -> "F" [] c = "g" -> "G" [] c = "h" -> "H"
      [] c = "i" -> "I" [] c = "j" -> "J" [] c = "k" -> "K" [] c = "l" -> "L"
      [] c = "m" -> "M" [] c = "n" -> "N" [] c = "o" -> "O" [] c = "p" -> "P"
      [] c = "q" -> "Q" [] c = "r" -> "R" [] c = "s" -> "S" [] c = "t" -> "T"
      [] c = "u" -> "U" [] c = "v" -> "V" [] c = "w" -> "W" [] c = "x" -> "X"
      [] c = "y" -> "Y" [] c = "z" -> "Z" [] c = "ä" -> "Ä" [] c = "ö" -> "Ö"
      [] c = "ü" -> "Ü" [] OTHER -> c

IsCased(c) == LowerChar(c) # c \/ UpperChar(c) # c

\* s.lower()
RECURSIVE lower(_)
lower(s) == IF s = "" THEN "" ELSE LowerChar(Head(s)) \o lower(Tail(s))

\* s.upper()
RECURSIVE upper(_)
upper(s) == IF s = "" THEN "" ELSE UpperChar(Head(s)) \o upper(Tail(s))

\* s.title(): a cased character is upper-cased after an uncased one (or at the
\* start) and lower-cased after a cased one
RECURSIVE TitleFrom(_, _)
TitleFrom(s, afterCased) ==
    IF s = "" THEN ""
    ELSE LET c == Head(s) IN
         (IF afterCased THEN LowerChar(c) ELSE UpperChar(c))
             \o TitleFrom(Tail(s), IsCased(c))

title(s) == TitleFrom(s, FALSE)

IsSpace(c) == c \in {" ", "\t", "\n", "\r", "\f"}

\* s.strip()
strip(s) ==
    LET keep == {i \in 1..Len(s) : ~IsSpace(SubSeq(s, i, i))} IN
    IF keep = {} THEN ""
    ELSE SubSeq(s, SetMin(keep), CHOOSE m \in keep : \A x \in keep : x <= m)

\* s[:n]
Prefix(s, n) == SubSeq(s, 1, Min(n, Len(s)))

\* s.replace(old, new), old non-empty: leftmost occurrences, not overlapping
RECURSIVE replace(_, _, _)
replace(s, old, new) ==
    LET occ == Occurrences(old, s) IN
    IF occ = {} THEN s
    ELSE LET i == SetMin(occ) IN
         SubSeq(s, 1, i - 1) \o new
             \o replace(SubSeq(s, i + Len(old), Len(s)), old, new)

\* the elements of a set of numbers, ascending
RECURSIVE Ascending(_)
Ascending(S) ==
    IF S = {} THEN <<>>
    ELSE LET m == SetMin(S) IN <<m>> \o Ascending(S \ {m})

\* s.split(sep) for a one-character sep
split(s, sep) ==
    LET pos == Ascending({i \in 1..Len(s) : SubSeq(s, i, i) = sep})
        n   == Len(pos)
    IN  [j \in 1..(n + 1) |->
            SubSeq(s, IF j = 1 THEN 1 ELSE pos[j - 1] + 1,
                      IF j = n + 1 THEN Len(s) ELSE pos[j] - 1)]

\* sep.join(xs)
RECURSIVE join(_, _)
join(sep, xs) ==
    IF xs = <<>> THEN ""
    ELSE IF Len(xs) = 1 THEN xs[1]
    ELSE xs[1] \o sep \o join(sep, Tail(xs))

\* list(dict.fromkeys(xs)): the elements of xs, each kept at its first place
RECURSIVE fromkeys(_)
fromkeys(xs) ==
    IF xs = <<>> THEN <<>>
    ELSE LET front == fromkeys(SubSeq(xs, 1, Len(xs) - 1))
             last  == xs[Len(xs)]
         IN  IF \E i \in 1..Len(front) : front[i] = last
             THEN front ELSE Append(front, last)

\* template.format(**kw): "{{" and "}}" give one brace, "{name}" gives
\* kw[name]; the braces are taken from left to right
format(t, kw) ==
    LET pos == Ascending({i \in 1..Len(t) : SubSeq(t, i, i) \in {"{", "}"}})
        RECURSIVE From(_, _)
        \* the text from character c on, pos[n] being the next brace
        From(n, c) ==
            IF n > Len(pos) THEN SubSeq(t, c, Len(t))
            ELSE LET i == pos[n] IN
                 IF /\ n < Len(pos)
                    /\ pos[n + 1] = i + 1
                    /\ SubSeq(t, i + 1, i + 1) = SubSeq(t, i, i)
                 THEN SubSeq(t, c, i) \o From(n + 2, i + 2)
                 ELSE SubSeq(t, c, i - 1)
                          \o kw[SubSeq(t, i + 1, pos[n + 1] - 1)]
                          \o From(n + 2, pos[n + 1] + 1)
    IN  From(1, 1)

(***************************************************************************)
(* The template registry.  FEATURE_HANDLERS["api_integration"] is the two  *)
(* string literals of src/app.py:123-125 as tokenised: the "functions"     *)
(* literal closes at the end of line 125, so it holds the signature line   *)
(* only, and lines 126-149 of the source lie outside every string.         *)
(***************************************************************************)
\* AI_MODELS as the module defines it (src/app.py:8-55)
AI_MODELS_0 ==
       "openai" :> [
        models |-> <<"gpt-3.5-turbo", "gpt-4", "gpt-4o">>,
        import |-> "from openai import OpenAI",
        setup  |-> "client = OpenAI(api_key=api_key)",
        call   |->
            "response = client.chat.completions.create(\n" \o
            "            model=\"{model}\",\n" \o
            "            messages=[\n" \o
            "                {{\"role\": \"system\", \"content\": \"{system_prompt}\"}},\n" \o
            "                {{\"role\": \"user\", \"content\": \"{user_input}\"}}\n" \o
            "            ],\n" \o
            "            temperature={temperature}\n" \o
            "        )\n" \o
            "        return response.choices[0].message.content"]
    @@ "deepseek" :> [
        models |-> <<"deepseek-coder", "deepseek-chat">>,
        import |-> "import requests",
        setup  |-> "headers = {'Authorization': f'Bearer {api_key}', 'Content-Type': 'application/json'}",
        call   |->
            "response = requests.post(\n" \o
            "            \"https://api.deepseek.com/v1/chat/completions\",\n" \o
            "            headers=headers,\n" \o
            "            json={{\n" \o
            "                \"model\": \"{model}\",\n" \o
            "                \"messages\": [\n" \o
            "                    {{\"role\": \"system\", \"content\": \"{system_prompt}\"}},\n" \o
            "                    {{\"role\": \"user\", \"content\": \"{user_input}\"}}\n" \o
            "                ],\n" \o
            "                \"temperature\": {temperature}\n" \o
            "            }}\n" \o
            "        )\n" \o
            "        return response.json()[\"choices\"][0][\"message\"][\"content\"]"]
    @@ "anthropic" :> [
        models |-> <<"claude-3-opus", "claude-3-sonnet", "claude-3-haiku">>,
        import |-> "import anthropic",
        setup  |-> "client = anthropic.Anthropic(api_key=api_key)",
        call   |->
            "response = client.messages.create(\n" \o
            "            model=\"{model}\",\n" \o
            "            system=\"{system_prompt}\",\n" \o
            "            messages=[\n" \o
            "                {{\"role\": \"user\", \"content\": \"{user_input}\"}}\n" \o
            "            ],\n" \o
            "            temperature={temperature}\n" \o
            "        )\n" \o
            "        return response.content[0].text"]

\* FEATURE_HANDLERS as the module defines it (src/app.py:58-152)
FEATURE_HANDLERS_0 ==
       "file_handling" :> [
        imports   |->
            "import os\n" \o
            "import tempfile\n" \o
            "from werkzeug.utils import secure_filename",
        functions |->
            "def save_uploaded_file(file):\n" \o
            "    if file is None:\n" \o
            "        return None\n" \o
            "    temp_dir = tempfile.mkdtemp()\n" \o
            "    filename = secure_filename(file.name)\n" \o
            "    filepath = os.path.join(temp_dir, filename)\n" \o
            "    with open(filepath, 'wb') as f:\n" \o
            "        f.write(file.read())\n" \o
            "    return filepath\n" \o
            "\n" \o
            "def read_file_content(filepath, max_size=100000):\n" \o
            "    with open(filepath, 'r', encoding='utf-8', errors='ignore') as f:\n" \o
            "        content = f.read(max_size)\n" \o
            "    return content"]
    @@ "memory" :> [
        imports   |->
            "import sqlite3\n" \o
            "import json",
        functions |->
            "class ConversationMemory:\n" \o
            "    def __init__(self, db_path=\"memory.db\"):\n" \o
            "        self.db_path = db_path\n" \o
            "        self._init_db()\n" \o
            "        \n" \o
            "    def _init_db(self):\n" \o
            "        conn = sqlite3.connect(self.db_path)\n" \o
            "        cursor = conn.cursor()\n" \o
            "        cursor.execute('''\n" \o
            "        CREATE TABLE IF NOT EXISTS conversations (\n" \o
            "            id INTEGER PRIMARY KEY,\n" \o
            "            session_id TEXT,\n" \o
            "            timestamp TEXT,\n" \o
            "            user_input TEXT,\n" \o
            "            assistant_response TEXT\n" \o
            "        )\n" \o
            "        ''')\n" \o
            "        conn.commit()\n" \o
            "        conn.close()\n" \o
            "        \n" \o
            "    def save_interaction(self, session_id, user_input, assistant_response):\n" \o
            "        conn = sqlite3.connect(self.db_path)\n" \o
            "        cursor = conn.cursor()\n" \o
            "        cursor.execute(\n" \o
            "            \"INSERT INTO conversations (session_id, timestamp, user_input, assistant_response) VALUES (?, datetime('now'), ?, ?)\",\n" \o
            "            (session_id, user_input, assistant_response)\n" \o
            "        )\n" \o
            "        conn.commit()\n" \o
            "        conn.close()\n" \o
            "        \n" \o
            "    def get_conversation_history(self, session_id, limit=10):\n" \o
            "        conn = sqlite3.connect(self.db_path)\n" \o
            "        cursor = conn.cursor()\n" \o
            "        cursor.execute(\n" \o
            "            \"SELECT user_input, assistant_response FROM conversations WHERE session_id = ? ORDER BY timestamp DESC LIMIT ?\",\n" \o
            "            (session_id, limit)\n" \o
            "        )\n" \o
            "        history = cursor.fetchall()\n" \o
            "        conn.close()\n" \o
            "        return history"]
    @@ "api_integration" :> [
        imports   |->
            "import requests\n" \o
            "    import json",
        functions |->
            "def call_external_api(url, method=\"GET\", headers=None, data=None, params=None):"]

(***************************************************************************)
(* parse_tasks (src/app.py:154-208).                                       *)
(***************************************************************************)
\* any(x in task_input for x in keywords)
AnyIn(keywords, t) == \E i \in 1..Len(keywords) : In(keywords[i], t)

\* src/app.py:159-166, t the lower-cased text
ParseLanguage(t) ==
    IF In("python", t) THEN "python"
    ELSE IF In("php", t) THEN "php"
    ELSE IF In("javascript", t) \/ In("js", t) THEN "javascript"
    ELSE "python"

\* ParseApi with the anthropic rule tested first
ParseApiAnthropicFirst(t) ==
    IF In("anthropic", t) \/ In("claude", t) THEN "anthropic"
    ELSE IF In("openai", t) THEN "openai"
    ELSE IF In("deepseek", t) THEN "deepseek"
    ELSE "openai"

\* src/app.py:169-176
ParseApi(t) ==
    IF In("openai", t) THEN "openai"
    ELSE IF In("deepseek", t) THEN "deepseek"
    ELSE IF In("anthropic", t) \/ In("claude", t) THEN "anthropic"
    ELSE "openai"

\* ParseModel with the default taken from the primary provider's list
ParseModelPrimaryDefault(api, t) ==
    LET models == AI_MODELS[api].models
        hits   == {i \in 1..Len(models) : In(lower(models[i]), t)}
    IN  IF hits = {} THEN AI_MODELS["openai"].models[1]
        ELSE models[SetMin(hits)]

\* src/app.py:179-186: the first model of the provider, in list order, whose
\* lower-cased name occurs in t; the provider's first model if none does
ParseModel(api, t) ==
    LET models == AI_MODELS[api].models
        hits   == {i \in 1..Len(models) : In(lower(models[i]), t)}
    IN  IF hits = {} THEN models[1] ELSE models[SetMin(hits)]

FileKeywords == <<"file", "files", "upload", "datei", "dateien">>
MemoryKeywords == <<"memory", "history", "gedächtnis", "speicher", "verlauf">>
ApiKeywords == <<"api", "integration", "external", "extern">>

\* ParseFeatures with the memory test made first
ParseFeaturesMemoryFirst(t) ==
    (IF AnyIn(MemoryKeywords, t) THEN <<"memory">> ELSE <<>>)
        \o (IF AnyIn(FileKeywords, t) THEN <<"file_handling">> ELSE <<>>)
        \o (IF AnyIn(ApiKeywords, t) THEN <<"api_integration">> ELSE <<>>)

\* src/app.py:189-195
ParseFeatures(t) ==
    (IF AnyIn(FileKeywords, t) THEN <<"file_handling">> ELSE <<>>)
        \o (IF AnyIn(MemoryKeywords, t) THEN <<"memory">> ELSE <<>>)
        \o (IF AnyIn(ApiKeywords, t) THEN <<"api_integration">> ELSE <<>>)

\* src/app.py:198
ParseWebUi(t) == In("web", t) \/ In("ui", t) \/ In("interface", t)

\* src/app.py:199
ParseCli(t) == In("cli", t) \/ In("command", t) \/ In("terminal", t)

parse_tasks(s) ==
    LET t   == lower(s)
        api == ParseApi(t)
    IN  [language |-> ParseLanguage(t),
         api      |-> api,
         model    |-> ParseModel(api, t),
         features |-> ParseFeatures(t),
         web_ui   |-> ParseWebUi(t),
         cli      |-> ParseCli(t)]

(***************************************************************************)
(* generate_python_code (src/app.py:227-358).  The locals imports,         *)
(* setup_code, assistant_class, main_code and memory_class are lists of    *)
(* strings; all_sections joins them.                                       *)
(***************************************************************************)
\* xs[1] \o xs[2] \o ... for a list of lists
RECURSIVE Flatten(_)
Flatten(xs) == IF xs = <<>> THEN <<>> ELSE Head(xs) \o Flatten(Tail(xs))

\* the features of fs that the loop of src/app.py:254-255 does not skip
KnownFeatures(fs) == SelectSeq(fs, LAMBDA f : f \in DOMAIN FEATURE_HANDLERS)

\* imports: src/app.py:231-236, then one element per feature (line 256: the
\* feature's whole imports string, not its lines), then line 279
PyImports(p) ==
    <<"import os", "import sys", "import json", AI_MODELS[p.api].import>>
        \o [i \in 1..Len(KnownFeatures(p.features)) |->
               FEATURE_HANDLERS[KnownFeatures(p.features)[i]].imports]
        \o (IF p.web_ui THEN <<"import gradio as gr">> ELSE <<>>)

\* src/app.py:238-241
PySetupCode(k) ==
    <<"# API-Setup",
      "api_key = os.environ.get('API_KEY', '" \o Prefix(k, 3) \o "...')">>

\* src/app.py:243-251
PyAssistantHead(p) ==
    <<"class AIAssistant:",
      "    def __init__(self, api_key):",
      "        self.api_key = api_key",
      "        " \o replace(AI_MODELS[p.api].setup, "api_key", "self.api_key"),
      "",
      "    def ask(self, user_input, system_prompt=\"You are a helpful AI assistant.\", temperature=0.7):",
      "        " \o replace(replace(AI_MODELS[p.api].call, "{model}", p.model),
                            "{temperature}", "temperature")>>

\* src/app.py:267-273
PyMemoryIntegration ==
    <<"    def initialize_memory(self, db_path=\"memory.db\"):",
      "        self.memory = ConversationMemory(db_path)",
      "",
      "    def ask_with_memory(self, user_input, session_id, system_prompt=\"You are a helpful AI assistant.\", temperature=0.7):",
      "        response = self.ask(user_input, system_prompt, temperature)",
      "        self.memory.save_interaction(session_id, user_input, response)",
      "        return response">>

\* src/app.py:261-264: the feature's functions, each line indented by four
PyIndentedFunctions(f) ==
    LET feature_funcs == split(FEATURE_HANDLERS[f].functions, "\n") IN
    [i \in 1..Len(feature_funcs) |-> "    " \o feature_funcs[i]]

\* PyFeatureLines with memory treated as every other feature
PyFeatureLinesMerged(f) ==
    <<"", "    # " \o title(replace(f, "_", " ")) \o " Methods">>
        \o PyIndentedFunctions(f)

\* what one turn of the loop of src/app.py:254-273 appends to assistant_class
PyFeatureLines(f) ==
    <<"", "    # " \o title(replace(f, "_", " ")) \o " Methods">>
        \o (IF f # "memory" THEN PyIndentedFunctions(f) ELSE PyMemoryIntegration)

PyAssistantClass(p) ==
    PyAssistantHead(p)
        \o Flatten([i \in 1..Len(KnownFeatures(p.features)) |->
                       PyFeatureLines(KnownFeatures(p.features)[i])])

\* src/app.py:280-301
PyWebInterface ==
    <<"def create_web_interface():",
      "    assistant = AIAssistant(api_key)",
      "",
      "    def process_query(query, history):",
      "        response = assistant.ask(query)",
      "        history.append((query, response))",
      "        return \"\", history",
      "",
      "    with gr.Blocks() as demo:",
      "        gr.Markdown(f\"## AI Assistant mit {params['model']}\")",
      "",
      "        chatbot = gr.Chatbot()",
      "        msg = gr.Textbox()",
      "        clear = gr.Button(\"Clear\")",
      "",
      "        msg.submit(process_query, [msg, chatbot], [msg, chatbot])",
      "        clear.click(lambda: None, None, chatbot, queue=False)",
      "",
      "    demo.launch()",
      "">>

\* src/app.py:304-318
PyRunCli ==
    <<"def run_cli():",
      "    assistant = AIAssistant(api_key)",
      "    print(f\"AI Assistant mit {params['model']} bereit. Zum Beenden 'exit' eingeben.\")",
      "",
      "    while True:",
      "        user_input = input(\"\\nFrage: \")",
      "        if user_input.lower() in ['exit', 'quit', 'q']:",
      "            print(\"Auf Wiedersehen!\")",
      "            break",
      "",
      "        response = assistant.ask(user_input)",
      "        print(f\"\\nAssistent: {response}\")",
      "">>

\* PyEntryPoint with the last branch left out
PyEntryPointNoFallback(p) ==
    <<"if __name__ == \"__main__\":">>
        \o (IF p.web_ui /\ p.cli THEN
                <<"    if len(sys.argv) > 1 and sys.argv[1] == '--cli':",
                  "        run_cli()",
                  "    else:",
                  "        create_web_interface()">>
            ELSE IF p.web_ui THEN <<"    create_web_interface()">>
            ELSE IF p.cli THEN <<"    run_cli()">>
            ELSE <<>>)

\* src/app.py:320-333: the "__main__" block
PyEntryPoint(p) ==
    <<"if __name__ == \"__main__\":">>
        \o (IF p.web_ui /\ p.cli THEN
                <<"    if len(sys.argv) > 1 and sys.argv[1] == '--cli':",
                  "        run_cli()",
                  "    else:",
                  "        create_web_interface()">>
            ELSE IF p.web_ui THEN <<"    create_web_interface()">>
            ELSE IF p.cli THEN <<"    run_cli()">>
            ELSE <<"    assistant = AIAssistant(api_key)",
                   "    response = assistant.ask(\"Hallo, wie geht es dir?\")",
                   "    print(f\"Antwort: {response}\")">>)

\* main_code: src/app.py:276-333
PyMainCode(p) ==
    <<"# Hauptfunktion">>
        \o (IF p.web_ui THEN PyWebInterface ELSE <<>>)
        \o (IF p.cli THEN PyRunCli ELSE <<>>)
        \o PyEntryPoint(p)

\* x in xs for a list xs
Has(xs, x) == \E i \in 1..Len(xs) : xs[i] = x

\* memory_class: src/app.py:336-338
PyMemoryClass(p) ==
    IF Has(p.features, "memory")
    THEN split(FEATURE_HANDLERS["memory"].functions, "\n") ELSE <<>>

\* the features line of the header comment (src/app.py:345, 593)
FeaturesLabel(p) ==
    IF p.features # <<>> THEN join(", ", p.features)
    ELSE "Keine zusätzlichen Features"

\* the import section: src/app.py:347
PyImportSection(p) == join("\n", fromkeys(PyImports(p)))

\* all_sections: src/app.py:341-356
PyAllSections(p, k) ==
    <<"# Generierter AI Assistant",
      "# API: " \o upper(p.api),
      "# Modell: " \o p.model,
      "# Features: " \o FeaturesLabel(p),
      "",
      PyImportSection(p),
      "",
      join("\n", PySetupCode(k)),
      "",
      IF PyMemoryClass(p) # <<>> THEN join("\n", PyMemoryClass(p)) ELSE "",
      "",
      join("\n", PyAssistantClass(p)),
      "",
      join("\n", PyMainCode(p))>>

generate_python_code(p, k) == join("\n", PyAllSections(p, k))

(***************************************************************************)
(* generate_php_code (src/app.py:360-597).                                 *)
(***************************************************************************)
\* src/app.py:363-416
php_template ==
    "<?php\n" \o
    "    // Generierter AI Assistant\n" \o
    "    // API: {api}\n" \o
    "    // Modell: {model}\n" \o
    "    // Features: {features}\n" \o
    "\n" \o
    "    class AIAssistant {{\n" \o
    "        private $api_key;\n" \o
    "        private $model;\n" \o
    "\n" \o
    "        public function __construct($api_key, $model) {{\n" \o
    "            $this->api_key = $api_key;\n" \o
    "            $this->model = $model;\n" \o
    "        }}\n" \o
    "\n" \o
    "        public function ask($prompt, $system_prompt = \"You are a helpful AI assistant.\", $temperature = 0.7) {{\n" \o
    "            $url = \"https://api.{api_endpoint}/v1/chat/completions\";\n" \o
    "\n" \o
    "            $headers = [\n" \o
    "                \"Content-Type: application/json\",\n" \o
    "                \"Authorization: Bearer \" . $this->api_key\n" \o
    "            ];\n" \o
    "\n" \o
    "            $data = [\n" \o
    "                \"model\" => $this->model,\n" \o
    "                \"messages\" => [\n" \o
    "                    [\"role\" => \"system\", \"content\" => $system_prompt],\n" \o
    "                    [\"role\" => \"user\", \"content\" => $prompt]\n" \o
    "                ],\n" \o
    "                \"temperature\" => $temperature\n" \o
    "            ];\n" \o
    "\n" \o
    "            $ch = curl_init($url);\n" \o
    "            curl_setopt($ch, CURLOPT_RETURNTRANSFER, true);\n" \o
    "            curl_setopt($ch, CURLOPT_POST, true);\n" \o
    "            curl_setopt($ch, CURLOPT_POSTFIELDS, json_encode($data));\n" \o
    "            curl_setopt($ch, CURLOPT_HTTPHEADER, $headers);\n" \o
    "\n" \o
    "            $response = curl_exec($ch);\n" \o
    "            curl_close($ch);\n" \o
    "\n" \o
    "            $response_data = json_decode($response, true);\n" \o
    "            return $response_data[\"choices\"][0][\"message\"][\"content\"];\n" \o
    "        }}\n" \o
    "\n" \o
    "        {feature_methods}\n" \o
    "    }}\n" \o
    "\n" \o
    "    // Hauptcode\n" \o
    "    $api_key = '{api_key_preview}';\n" \o
    "    $assistant = new AIAssistant($api_key, '{model}');\n" \o
    "\n" \o
    "    {main_code}\n" \o
    "    ?>"
\* src/app.py:420-439
PhpFileHandlingMethods ==
    "\n" \o
    "        public function handleUploadedFile($file) {\n" \o
    "            $tempDir = sys_get_temp_dir();\n" \o
    "            $filename = basename($file[\"name\"]);\n" \o
    "            $filepath = $tempDir . \"/\" . $filename;\n" \o
    "\n" \o
    "            if (move_uploaded_file($file[\"tmp_name\"], $filepath)) {\n" \o
    "                return $filepath;\n" \o
    "            }\n" \o
    "\n" \o
    "            return null;\n" \o
    "        }\n" \o
    "\n" \o
    "        public function readFileContent($filepath, $maxSize = 100000) {\n" \o
    "            if (!file_exists($filepath)) {\n" \o
    "                return null;\n" \o
    "            }\n" \o
    "\n" \o
    "            return file_get_contents($filepath, false, null, 0, $maxSize);\n" \o
    "        }"
\* src/app.py:442-467
PhpMemoryMethods ==
    "\n" \o
    "        private $db;\n" \o
    "\n" \o
    "        public function initializeMemory($dbPath = \"memory.sqlite\") {\n" \o
    "            $this->db = new SQLite3($dbPath);\n" \o
    "            $this->db->exec(\"CREATE TABLE IF NOT EXISTS conversations (\n" \o
    "                id INTEGER PRIMARY KEY AUTOINCREMENT,\n" \o
    "                session_id TEXT,\n" \o
    "                timestamp TEXT,\n" \o
    "                user_input TEXT,\n" \o
    "                assistant_response TEXT\n" \o
    "            )\");\n" \o
    "        }\n" \o
    "\n" \o
    "        public function askWithMemory($prompt, $sessionId, $systemPrompt = \"You are a helpful AI assistant.\", $temperature = 0.7) {\n" \o
    "            $response = $this->ask($prompt, $systemPrompt, $temperature);\n" \o
    "\n" \o
    "            $stmt = $this->db->prepare(\"INSERT INTO conversations (session_id, timestamp, user_input, assistant_response) \n" \o
    "                                        VALUES (:session_id, datetime('now'), :user_input, :assistant_response)\");\n" \o
    "            $stmt->bindValue(':session_id', $sessionId, SQLITE3_TEXT);\n" \o
    "            $stmt->bindValue(':user_input', $prompt, SQLITE3_TEXT);\n" \o
    "            $stmt->bindValue(':assistant_response', $response, SQLITE3_TEXT);\n" \o
    "            $stmt->execute();\n" \o
    "\n" \o
    "            return $response;\n" \o
    "        }"
\* src/app.py:481-565
PhpWebMain ==
    "\n" \o
    "    // Web-UI\n" \o
    "    if ($_SERVER[\"REQUEST_METHOD\"] == \"POST\") {\n" \o
    "        $user_input = $_POST[\"user_input\"] ?? \"\";\n" \o
    "\n" \o
    "        if (!empty($user_input)) {\n" \o
    "            $response = $assistant->ask($user_input);\n" \o
    "            echo json_encode([\"response\" => $response]);\n" \o
    "            exit;\n" \o
    "        }\n" \o
    "    }\n" \o
    "\n" \o
    "    ?>\n" \o
    "    <!DOCTYPE html>\n" \o
    "    <html>\n" \o
    "    <head>\n" \o
    "        <title>AI Assistant</title>\n" \o
    "        <style>\n" \o
    "            body { font-family: Arial, sans-serif; max-width: 800px; margin: 0 auto; padding: 20px; }\n" \o
    "            .chat-container { border: 1px solid #ddd; border-radius: 5px; padding: 10px; height: 400px; overflow-y: auto; margin-bottom: 10px; }\n" \o
    "            .user-message { background-color: #e6f7ff; padding: 8px; border-radius: 5px; margin-bottom: 10px; }\n" \o
    "            .assistant-message { background-color: #f2f2f2; padding: 8px; border-radius: 5px; margin-bottom: 10px; }\n" \o
    "            input[type=\"text\"] { width: 80%; padding: 8px; }\n" \o
    "            button { padding: 8px 15px; background-color: #4CAF50; color: white; border: none; border-radius: 5px; cursor: pointer; }\n" \o
    "        </style>\n" \o
    "    </head>\n" \o
    "    <body>\n" \o
    "        <h1>AI Assistant mit <?php echo htmlspecialchars('{model}'); ?></h1>\n" \o
    "\n" \o
    "        <div class=\"chat-container\" id=\"chatContainer\"></div>\n" \o
    "\n" \o
    "        <div>\n" \o
    "            <input type=\"text\" id=\"userInput\" placeholder=\"Stellen Sie eine Frage...\">\n" \o
    "            <button onclick=\"sendMessage()\">Senden</button>\n" \o
    "        </div>\n" \o
    "\n" \o
    "        <script>\n" \o
    "            function sendMessage() {\n" \o
    "                const userInput = document.getElementById('userInput').value;\n" \o
    "                if (!userInput) return;\n" \o
    "\n" \o
    "                // Nachricht des Benutzers anzeigen\n" \o
    "                addMessage('user', userInput);\n" \o
    "                document.getElementById('userInput').value = '';\n" \o
    "\n" \o
    "                // Anfrage an den Server senden\n" \o
    "                fetch(window.location.href, {\n" \o
    "                    method: 'POST',\n" \o
    "                    headers: {\n" \o
    "                        'Content-Type': 'application/x-www-form-urlencoded',\n" \o
    "                    },\n" \o
    "                    body: 'user_input=' + encodeURIComponent(userInput)\n" \o
    "                })\n" \o
    "                .then(response => response.json())\n" \o
    "                .then(data => {\n" \o
    "                    addMessage('assistant', data.response);\n" \o
    "                })\n" \o
    "                .catch(error => {\n" \o
    "                    console.error('Error:', error);\n" \o
    "                    addMessage('assistant', 'Es ist ein Fehler aufgetreten.');\n" \o
    "                });\n" \o
    "            }\n" \o
    "\n" \o
    "            function addMessage(role, content) {\n" \o
    "                const chatContainer = document.getElementById('chatContainer');\n" \o
    "                const messageDiv = document.createElement('div');\n" \o
    "                messageDiv.className = role + '-message';\n" \o
    "                messageDiv.textContent = content;\n" \o
    "                chatContainer.appendChild(messageDiv);\n" \o
    "                chatContainer.scrollTop = chatContainer.scrollHeight;\n" \o
    "            }\n" \o
    "\n" \o
    "            // Event-Listener für die Enter-Taste\n" \o
    "            document.getElementById('userInput').addEventListener('keypress', function(e) {\n" \o
    "                if (e.key === 'Enter') {\n" \o
    "                    sendMessage();\n" \o
    "                }\n" \o
    "            });\n" \o
    "        </script>\n" \o
    "    </body>\n" \o
    "    </html>\n" \o
    "\n" \o
    "    <?php\n" \o
    "    // Verhindere weitere Ausführung\n" \o
    "    exit;"
\* src/app.py:567-582
PhpCliMain ==
    "\n" \o
    "    // CLI-Modus\n" \o
    "    echo \"AI Assistant mit {model} bereit. Zum Beenden 'exit' eingeben.\n" \o
    "\";\n" \o
    "\n" \o
    "    while (true) {\n" \o
    "        echo \"\n" \o
    "Frage: \";\n" \o
    "        $userInput = trim(fgets(STDIN));\n" \o
    "\n" \o
    "        if (in_array(strtolower($userInput), ['exit', 'quit', 'q'])) {\n" \o
    "            echo \"Auf Wiedersehen!\n" \o
    "\";\n" \o
    "            break;\n" \o
    "        }\n" \o
    "\n" \o
    "        $response = $assistant->ask($userInput);\n" \o
    "        echo \"\n" \o
    "Assistent: \" . $response . \"\n" \o
    "\";\n" \o
    "    }"
\* src/app.py:584-587
PhpTestMain ==
    "\n" \o
    "    // Einfacher Test\n" \o
    "    $response = $assistant->ask(\"Hallo, wie geht es dir?\");\n" \o
    "    echo \"Antwort: \" . $response . \"\n" \o
    "\";"

\* PhpFeatureMethods with the second test written as an elif
PhpFeatureMethodsExclusive(p) ==
    IF Has(p.features, "file_handling") THEN PhpFileHandlingMethods
    ELSE IF Has(p.features, "memory") THEN PhpMemoryMethods
    ELSE ""

\* feature_methods: src/app.py:418-467
PhpFeatureMethods(p) ==
    (IF Has(p.features, "file_handling") THEN PhpFileHandlingMethods ELSE "")
        \o (IF Has(p.features, "memory") THEN PhpMemoryMethods ELSE "")

\* api_endpoint: src/app.py:470-476
PhpApiEndpoint(p) ==
    IF p.api = "anthropic" THEN "anthropic.com"
    ELSE IF p.api = "openai" THEN "openai.com"
    ELSE "deepseek.com"

\* main_code: src/app.py:479-587
PhpMainCode(p) ==
    IF p.web_ui THEN PhpWebMain
    ELSE IF p.cli THEN PhpCliMain
    ELSE PhpTestMain

\* src/app.py:589-597
generate_php_code(p, k) ==
    format(php_template,
           [api             |-> upper(p.api),
            api_endpoint    |-> PhpApiEndpoint(p),
            model           |-> p.model,
            features        |-> FeaturesLabel(p),
            feature_methods |-> PhpFeatureMethods(p),
            api_key_preview |-> Prefix(k, 3) \o "...",
            main_code       |-> PhpMainCode(p)])

(***************************************************************************)
(* generate_js_code (src/app.py:599-993).  The Python text of the function *)
(* ends in line 822, inside the branch that builds memory_class; what      *)
(* follows is JavaScript, not Python.  The function has no return          *)
(* statement and never formats js_template, so a call returns None.        *)
(***************************************************************************)
None == [type |-> "NoneType", value |-> ""]

\* a returned str
Str(s) == [type |-> "str", value |-> s]

\* src/app.py:716-742
JsFileHandlingMethods ==
    "\n" \o
    "  saveUploadedFile(fileData, filename) {\n" \o
    "    const tempDir = os.tmpdir();\n" \o
    "    const filepath = path.join(tempDir, filename);\n" \o
    "    \n" \o
    "    return new Promise((resolve, reject) => {\n" \o
    "      fs.writeFile(filepath, fileData, (err) => {\n" \o
    "        if (err) {\n" \o
    "          reject(err);\n" \o
    "          return;\n" \o
    "        }\n" \o
    "        resolve(filepath);\n" \o
    "      });\n" \o
    "    });\n" \o
    "  }\n" \o
    "  \n" \o
    "  readFileContent(filepath, maxSize = 100000) {\n" \o
    "    return new Promise((resolve, reject) => {\n" \o
    "      fs.readFile(filepath, 'utf8', (err, data) => {\n" \o
    "        if (err) {\n" \o
    "          reject(err);\n" \o
    "          return;\n" \o
    "        }\n" \o
    "        resolve(data.slice(0, maxSize));\n" \o
    "      });\n" \o
    "    });\n" \o
    "  }"
\* src/app.py:745-754
JsMemoryMethods ==
    "\n" \o
    "  initializeMemory(dbPath = \"memory.db\") {\n" \o
    "    this.memory = new ConversationMemory(dbPath);\n" \o
    "  }\n" \o
    "  \n" \o
    "  async askWithMemory(userInput, sessionId, systemPrompt = \"You are a helpful AI assistant.\", temperature = 0.7) {\n" \o
    "    const response = await this.ask(userInput, systemPrompt, temperature);\n" \o
    "    await this.memory.saveInteraction(sessionId, userInput, response);\n" \o
    "    return response;\n" \o
    "  }"

\* the local feature_methods of generate_js_code: src/app.py:713-754.  It is
\* built and never used: the function does not reach a return
JsFeatureMethods(p) ==
    (IF Has(p.features, "file_handling") THEN JsFileHandlingMethods ELSE "")
        \o (IF Has(p.features, "memory") THEN JsMemoryMethods ELSE "")

generate_js_code(p, k) == None

(***************************************************************************)
(* generate_code (src/app.py:210-225) and the calls a client makes.        *)
(***************************************************************************)
MissingKeyMessage == "Bitte geben Sie einen gültigen API-Key ein."

\* src/app.py:218-225: the composer chosen by params["language"]
Composer(p) ==
    IF p.language = "python" THEN "generate_python_code"
    ELSE IF p.language = "php" THEN "generate_php_code"
    ELSE IF p.language = "javascript" THEN "generate_js_code"
    ELSE "none"

NoParams ==
    [language |-> "", api |-> "", model |-> "", features |-> <<>>,
     web_ui |-> FALSE, cli |-> FALSE]

\* src/app.py:218-225: the composer's result for params p
compose(p, k) ==
    IF p.language = "python" THEN Str(generate_python_code(p, k))
    ELSE IF p.language = "php" THEN Str(generate_php_code(p, k))
    ELSE IF p.language = "javascript" THEN generate_js_code(p, k)
    ELSE Str("Die Programmiersprache " \o p.language
                 \o " wird noch nicht unterstützt.")

\* generate_code testing "not api_key" instead of "not api_key.strip()"
generate_code_unstripped(s, k) ==
    IF k = "" THEN
        [result |-> Str(MissingKeyMessage), params |-> NoParams,
         invoked |-> {"generate_code"}]
    ELSE LET p == parse_tasks(s) IN
         [result |-> compose(p, k), params |-> p,
          invoked |-> {"generate_code", "parse_tasks"}
                          \cup ({Composer(p)} \ {"none"})]

\* generate_code(s, k), src/app.py:210-225: the value it returns, the params
\* it parsed and the functions it entered
generate_code(s, k) ==
    IF strip(k) = "" THEN
        [result |-> Str(MissingKeyMessage), params |-> NoParams,
         invoked |-> {"generate_code"}]
    ELSE LET p == parse_tasks(s) IN
         [result |-> compose(p, k), params |-> p,
          invoked |-> {"generate_code", "parse_tasks"}
                          \cup ({Composer(p)} \ {"none"})]

\* GenerateCode with the composer adding to the registry's import text
\* instead of to its own list
GenerateCodeRegistryAppend(s, k) ==
    /\ pc = "idle"
    /\ task_input' = s
    /\ api_key' = k
    /\ LET r == generate_code(s, k) IN
           /\ params' = r.params
           /\ result' = r.result
           /\ invoked' = r.invoked
           /\ FEATURE_HANDLERS' =
                  [f \in DOMAIN FEATURE_HANDLERS |->
                      IF \E i \in 1..Len(r.params.features) :
                             r.params.features[i] = f
                      THEN [FEATURE_HANDLERS[f] EXCEPT
                               !.imports = @ \o "\nimport gradio as gr"]
                      ELSE FEATURE_HANDLERS[f]]
    /\ pc' = "done"
    /\ UNCHANGED <<AI_MODELS, log, requests, config>>

\* one call of generate_code(s, k), from entry to return
GenerateCode(s, k) ==
    /\ pc = "idle"
    /\ task_input' = s
    /\ api_key' = k
    /\ LET r == generate_code(s, k) IN
           /\ params' = r.params
           /\ result' = r.result
           /\ invoked' = r.invoked
    /\ pc' = "done"
    /\ UNCHANGED <<AI_MODELS, FEATURE_HANDLERS, log, requests, config>>

\* one direct call of parse_tasks(s)
ParseTasks(s) ==
    /\ pc = "idle"
    /\ task_input' = s
    /\ params' = parse_tasks(s)
    /\ invoked' = {"parse_tasks"}
    /\ pc' = "parsed"
    /\ UNCHANGED <<AI_MODELS, FEATURE_HANDLERS, api_key, result, log, requests,
                   config>>

\* the caller takes the returned value and the process is free for the next
\* call; the module-level dicts live on
NextCall ==
    /\ pc = "done"
    /\ Len(log) < MaxCalls
    /\ log' = Append(log, [task_input |-> task_input, api_key |-> api_key,
                           result |-> result])
    /\ pc' = "idle"
    /\ UNCHANGED <<AI_MODELS, FEATURE_HANDLERS, task_input, api_key, params,
                   result, invoked, requests, config>>

(***************************************************************************)
(* Concurrent requests: the front end serves each request by a call of     *)
(* generate_code on a thread of its own.  A request has its arguments and  *)
(* its locals (params, the returned value); AI_MODELS and FEATURE_HANDLERS *)
(* are the module-level dicts all requests read.  A step is one function   *)
(* body: generate_code up to its call of parse_tasks, parse_tasks, the     *)
(* composer.  overlap records that another request was in progress when    *)
(* the request was entered.                                                *)
(***************************************************************************)
IdleRequest ==
    [pc |-> "idle", task_input |-> "", api_key |-> "", params |-> NoParams,
     result |-> None, overlap |-> FALSE]

InProgress(q) == requests[q].pc \in {"entered", "parsed"}

\* src/app.py:210-213: generate_code(s, k) is entered on request r
RequestEnter(r, s, k) ==
    /\ requests[r].pc = "idle"
    /\ requests' =
           [requests EXCEPT ![r] =
               [pc         |-> IF strip(k) = "" THEN "done" ELSE "entered",
                task_input |-> s,
                api_key    |-> k,
                params     |-> NoParams,
                result     |-> IF strip(k) = "" THEN Str(MissingKeyMessage)
                               ELSE None,
                overlap    |-> \E q \in DOMAIN requests \ {r} : InProgress(q)]]
    /\ UNCHANGED <<AI_MODELS, FEATURE_HANDLERS, task_input, api_key, params,
                   result, invoked, pc, log, config>>

\* src/app.py:215: params = parse_tasks(task_input)
RequestParse(r) ==
    /\ requests[r].pc = "entered"
    /\ requests' =
           [requests EXCEPT ![r].params = parse_tasks(requests[r].task_input),
                            ![r].pc = "parsed"]
    /\ UNCHANGED <<AI_MODELS, FEATURE_HANDLERS, task_input, api_key, params,
                   result, invoked, pc, log, config>>

\* RequestCompose with the composer adding to the registry's import text
\* instead of to its own list
RequestComposeRegistryAppend(r) ==
    /\ requests[r].pc = "parsed"
    /\ requests' =
           [requests EXCEPT
               ![r].result = compose(requests[r].params, requests[r].api_key),
               ![r].pc = "done"]
    /\ FEATURE_HANDLERS' =
           [f \in DOMAIN FEATURE_HANDLERS |->
               IF Has(requests[r].params.features, f)
               THEN [FEATURE_HANDLERS[f] EXCEPT
                        !.imports = @ \o "\nimport gradio as gr"]
               ELSE FEATURE_HANDLERS[f]]
    /\ UNCHANGED <<AI_MODELS, task_input, api_key, params, result, invoked, pc,
                   log, config>>

\* src/app.py:218-225: the composer of the language runs and generate_code
\* returns its value
RequestCompose(r) ==
    /\ requests[r].pc = "parsed"
    /\ requests' =
           [requests EXCEPT
               ![r].result = compose(requests[r].params, requests[r].api_key),
               ![r].pc = "done"]
    /\ UNCHANGED <<AI_MODELS, FEATURE_HANDLERS, task_input, api_key, params,
                   result, invoked, pc, log, config>>

(***************************************************************************)
(* load_config and deep_merge (src/modules/config_loader.py).  A JSON      *)
(* value is a str, an int or a dict; a dict is the list of its items in    *)
(* insertion order.  deep_merge changes base in place, so what it returns  *)
(* here is base as it stands when the call ends, by return or by raise,    *)
(* and the exception raised, "none" if none.                               *)
(***************************************************************************)
Num(n) == [type |-> "int", number |-> n]
Dict(items) == [type |-> "dict", items |-> items]

\* config_loader.py:7-14
default_config ==
    Dict(<< <<"environment",
              Dict(<< <<"cache_dir", Str("/tmp/default_cache")>>,
                      <<"max_temp_files", Num(50)>>,
                      <<"cleanup_interval", Num(1800)>> >>)>> >>)

\* the place of key in the dict d, 0 if it is not a key of d
KeyIndex(d, key) ==
    LET at == {i \in 1..Len(d.items) : d.items[i][1] = key} IN
    IF at = {} THEN 0 ELSE SetMin(at)

\* key in base, for base a dict or a str
Contains(base, key) ==
    IF base.type = "dict" THEN KeyIndex(base, key) # 0 ELSE In(key, base.value)

\* base[key] for a key of the dict base
GetItem(base, key) == base.items[KeyIndex(base, key)][2]

\* the dict base after base[key] = value
SetItem(base, key, value) ==
    IF KeyIndex(base, key) # 0
    THEN Dict([base.items EXCEPT ![KeyIndex(base, key)] = <<key, value>>])
    ELSE Dict(Append(base.items, <<key, value>>))

Returned(base) == [base |-> base, error |-> "none"]
Raised(base, e) == [base |-> base, error |-> e]

RECURSIVE deep_merge(_, _)
RECURSIVE MergeItems(_, _, _)

\* one turn of the loop of deep_merge, config_loader.py:27-30
MergeItem(base, key, value) ==
    IF value.type = "dict" /\ base.type = "int" THEN
        Raised(base, "TypeError")               \* key in base, base an int
    ELSE IF value.type = "dict" /\ Contains(base, key) THEN
        IF base.type # "dict" THEN
            Raised(base, "AttributeError")      \* base.get, base a str
        ELSE LET inner == deep_merge(GetItem(base, key), value) IN
             \* base[key] is the object the inner call changed in place
             [base  |-> SetItem(base, key, inner.base),
              error |-> inner.error]
    ELSE IF base.type = "dict" THEN Returned(SetItem(base, key, value))
    ELSE Raised(base, "TypeError")              \* base[key] = value

\* the loop of deep_merge from the n-th item of update on
MergeItems(base, items, n) ==
    IF n > Len(items) THEN Returned(base)
    ELSE LET step == MergeItem(base, items[n][1], items[n][2]) IN
         IF step.error # "none" THEN step
         ELSE MergeItems(step.base, items, n + 1)

\* config_loader.py:24-31
deep_merge(base, update) ==
    IF update.type # "dict" THEN Raised(base, "AttributeError") \* update.items
    ELSE MergeItems(base, update.items, 1)

\* the exception classes "except Exception" catches
Exceptions ==
    {"FileNotFoundError", "JSONDecodeError", "AttributeError", "TypeError"}

\* config_loader.py:5-22: the value load_config returns, the exception it
\* logged and the exception that left it, for the config.json given.  In the
\* except branch default_config is the dict deep_merge was working on
load_config(file) ==
    IF file.kind = "missing" THEN
        [returned |-> default_config, error |-> "FileNotFoundError",
         escaped |-> "none"]
    ELSE IF file.kind = "invalid" THEN
        [returned |-> default_config, error |-> "JSONDecodeError",
         escaped |-> "none"]
    ELSE LET m == deep_merge(default_config, file.value) IN
         [returned |-> m.base,
          error    |-> m.error,
          escaped  |-> IF m.error \in Exceptions THEN "none" ELSE m.error]

\* one call of load_config() with config.json as given
LoadConfig(file) ==
    /\ config.pc = "idle"
    /\ config' = [pc |-> "done", file |-> file, call |-> load_config(file)]
    /\ UNCHANGED <<AI_MODELS, FEATURE_HANDLERS, task_input, api_key, params,
                   result, invoked, pc, log, requests>>

(***************************************************************************)
(* The inputs.                                                             *)
(***************************************************************************)
ScenarioA == "build a python assistant using openai with memory, cli mode"
ScenarioAKey == "sk-123456"
ScenarioC == "openai and anthropic"

Vocabulary ==
    {"Python", "php", "js", "openai", "deepseek-chat", "claude", "gpt-4",
     "gpt-4o", "file", "memory", "build", "cli"}

\* the texts of at most MaxWords words of Vocabulary, "" among them
WordTexts ==
    {join(" ", w) : w \in UNION {[1..n -> Vocabulary] : n \in 0..MaxWords}}

\* one text for every language, provider, feature set and UI mode
ParamTexts ==
    {join(" ", SelectSeq(<<l, a, f, m, x, w, c>>, LAMBDA part : part # "")) :
        l \in {"", "php", "javascript"}, a \in {"", "deepseek", "anthropic"},
        f \in {"", "upload"}, m \in {"", "history"}, x \in {"", "extern"},
        w \in {"", "interface"}, c \in {"", "terminal"}}

Texts ==
    WordTexts \cup ParamTexts
        \cup {ScenarioA, ScenarioC, "anthropic and openai", "  \n\t ",
              "a claude-3-haiku bot in JavaScript"}

\* the credentials: a long one, blank ones, and one of three characters
Keys == {ScenarioAKey, "", " \t "}
ShortKeys == {"abc"}

\* the inputs of the runs of several calls
CallTexts == {ScenarioA, "", "php history", "javascript"}
CallKeys == {ScenarioAKey, ""}

\* the inputs of the concurrent requests
RequestTexts == {"php history", "memory file"}
RequestKeys == {ScenarioAKey, ""}

\* the config.json files: absent, not JSON, or a JSON value
NoFile == [kind |-> "missing", value |-> None]
BadFile == [kind |-> "invalid", value |-> None]
JsonFile(u) == [kind |-> "json", value |-> u]

ConfigValues ==
    {Num(5), Str("/var/cache"), Dict(<<>>), Dict(<< <<"a", Num(1)>> >>),
     Dict(<< <<"a", Dict(<<>>)>> >>)}
ConfigKeys == {"cache_dir", "max_temp_files", "cleanup_interval", "log_level"}

\* the dicts of at most MaxKeys items, keys distinct, in every order
ConfigDicts ==
    {Dict(items) :
        items \in {it \in UNION {[1..n -> ConfigKeys \X ConfigValues] :
                                   n \in 0..MaxKeys} :
                      \A i, j \in 1..Len(it) : i < j => it[i][1] # it[j][1]}}

UserConfigs ==
    {Dict(<< <<"environment", e>> >>) : e \in ConfigDicts \cup ConfigValues}
        \cup {Num(5), Str("x"), Dict(<<>>),
              Dict(<< <<"debug", Num(1)>>,
                      <<"environment", Dict(<< <<"cache_dir", Num(5)>> >>)>> >>)}

ConfigFiles == {NoFile, BadFile} \cup {JsonFile(u) : u \in UserConfigs}

Init ==
    /\ AI_MODELS = AI_MODELS_0
    /\ FEATURE_HANDLERS = FEATURE_HANDLERS_0
    /\ task_input = ""
    /\ api_key = ""
    /\ params = NoParams
    /\ result = None
    /\ invoked = {}
    /\ pc = "idle"
    /\ log = <<>>
    /\ requests = [r \in 1..MaxRequests |-> IdleRequest]
    /\ config = [pc |-> "idle", file |-> NoFile,
                 call |-> [returned |-> None, error |-> "none",
                           escaped |-> "none"]]

Next ==
    \/ \E s \in Texts : ParseTasks(s)
    \/ \E s \in Texts, k \in Keys : GenerateCode(s, k)
    \/ \E s \in ParamTexts, k \in ShortKeys : GenerateCode(s, k)

Spec == Init /\ [][Next]_vars

\* a client that calls generate_code again and again
NextCalls ==
    \/ \E s \in CallTexts, k \in CallKeys : GenerateCode(s, k)
    \/ NextCall

SpecCalls == Init /\ [][NextCalls]_vars

\* requests served concurrently, their steps interleaved in any order
NextRequests ==
    \/ \E r \in 1..MaxRequests, s \in RequestTexts, k \in RequestKeys :
           RequestEnter(r, s, k)
    \/ \E r \in 1..MaxRequests : RequestParse(r)
    \/ \E r \in 1..MaxRequests : RequestCompose(r)

SpecRequests == Init /\ [][NextRequests]_vars

\* a process that loads its configuration
NextConfig == \E file \in ConfigFiles : LoadConfig(file)

SpecConfig == Init /\ [][NextConfig]_vars
(***************************************************************************)
(* The claims.                                                             *)
(***************************************************************************)
Languages == {"python", "php", "javascript"}
Providers == {"openai", "deepseek", "anthropic"}
Composers ==
    {"generate_python_code", "generate_php_code", "generate_js_code"}

\* parse_tasks has returned params for task_input
Parsed == pc \in {"parsed", "done"} /\ "parse_tasks" \in invoked

\* the text a returned program is recognised by: every composer's template
\* declares the assistant class
IsProgram(r) == r.type = "str" /\ In("class AIAssistant", r.value)

\* C1: for every task text, parse_tasks returns a language among python, php,
\* javascript, a provider among openai, deepseek, anthropic and a model of
\* that provider's list; when no model name of the provider occurs in the
\* text the model is the first of the provider's list.
C1_ParseTotal ==
    Parsed =>
        /\ params.language \in Languages
        /\ params.api \in Providers
        /\ Has(AI_MODELS[params.api].models, params.model)
        /\ (\A i \in 1..Len(AI_MODELS[params.api].models) :
                ~In(lower(AI_MODELS[params.api].models[i]), lower(task_input)))
               => params.model = AI_MODELS[params.api].models[1]

\* a text that names a provider and none of its models
C1_Witness ==
    /\ pc = "parsed"
    /\ task_input = "claude"
    /\ params.api = "anthropic"
    /\ params.model = "claude-3-opus"

\* C4: when the credential is empty or whitespace-only, generate_code returns
\* the missing-credential message, enters neither parse_tasks nor a composer,
\* and returns no generated program, whatever the task text.
C4_MissingCredential ==
    (pc = "done" /\ strip(api_key) = "") =>
        /\ result = Str(MissingKeyMessage)
        /\ invoked = {"generate_code"}
        /\ ~IsProgram(result)

\* a whitespace-only credential with a text that would otherwise generate
C4_Witness ==
    /\ pc = "done"
    /\ api_key = " \t "
    /\ task_input = ScenarioA
    /\ result = Str(MissingKeyMessage)

\* C7: language and provider are resolved by fixed priority, whatever the
\* position of the keywords: python, else php, else javascript/js, else
\* python; openai, else deepseek, else anthropic/claude, else openai.  A text
\* naming openai and anthropic resolves to openai.
C7_FixedPriority ==
    Parsed =>
        LET t == lower(task_input) IN
        /\ In("python", t) => params.language = "python"
        /\ (~In("python", t) /\ In("php", t)) => params.language = "php"
        /\ (~In("python", t) /\ ~In("php", t)
               /\ (In("javascript", t) \/ In("js", t)))
              => params.language = "javascript"
        /\ (~In("python", t) /\ ~In("php", t) /\ ~In("javascript", t)
               /\ ~In("js", t)) => params.language = "python"
        /\ In("openai", t) => params.api = "openai"
        /\ (~In("openai", t) /\ In("deepseek", t)) => params.api = "deepseek"
        /\ (~In("openai", t) /\ ~In("deepseek", t)
               /\ (In("anthropic", t) \/ In("claude", t)))
              => params.api = "anthropic"
        /\ (~In("openai", t) /\ ~In("deepseek", t) /\ ~In("anthropic", t)
               /\ ~In("claude", t)) => params.api = "openai"

\* the lower-priority provider named first, the higher-priority one second
C7_Witness ==
    /\ pc = "parsed"
    /\ task_input = "anthropic and openai"
    /\ params.api = "openai"
\* C2: Scenario A parses to python, openai, the default model gpt-3.5-turbo,
\* features {memory}, cli and no web UI, and the generated program holds one
\* ConversationMemory type, one run_cli entry point and no web bootstrap
\* (no create_web_interface, no gradio import).
C2_ScenarioA ==
    (pc = "done" /\ task_input = ScenarioA /\ api_key = ScenarioAKey) =>
        /\ params = [language |-> "python", api |-> "openai",
                     model |-> "gpt-3.5-turbo", features |-> <<"memory">>,
                     web_ui |-> FALSE, cli |-> TRUE]
        /\ result.type = "str"
        /\ Cardinality(Occurrences("class ConversationMemory", result.value)) = 1
        /\ Cardinality(Occurrences("def run_cli():", result.value)) = 1
        /\ ~In("create_web_interface", result.value)
        /\ ~In("import gradio", result.value)

\* C3: for an empty or whitespace-only task text and a non-blank credential
\* generate_code refuses: no composer is entered and no program is returned.
C3_EmptyInputRefused ==
    (pc = "done" /\ strip(task_input) = "" /\ strip(api_key) # "") =>
        /\ invoked \cap Composers = {}
        /\ ~IsProgram(result)

\* C5: for every non-blank credential, of any length, the credential does not
\* occur in the text generate_code returns.
C5_CredentialNotLeaked ==
    (pc = "done" /\ strip(api_key) # "") => ~In(api_key, result.value)

\* the lines of the import section of a composed Python program: from line 6,
\* after the header comment and its blank line, to the blank line before the
\* setup section
PyOutImportLines(text) ==
    LET lines == split(text, "\n")
        setup == SetMin({i \in 1..Len(lines) : lines[i] = "# API-Setup"})
    IN  SubSeq(lines, 6, setup - 2)

\* the import lines the composer collected, one line each
PyRawImportLines(p) ==
    Flatten([i \in 1..Len(PyImports(p)) |-> split(PyImports(p)[i], "\n")])

\* C6: the import section of the Python composer's output holds no line
\* twice, and holds the collected import lines in first-occurrence order.
C6_ImportsDeduplicated ==
    (pc = "done" /\ "generate_python_code" \in invoked) =>
        LET L == PyOutImportLines(result.value) IN
        /\ \A i, j \in 1..Len(L) : i < j => L[i] # L[j]
        /\ L = fromkeys(PyRawImportLines(params))

\* the text the web bootstrap of a language is recognised by
WebBootstrapMark(language) ==
    IF language = "python" THEN "def create_web_interface():"
    ELSE IF language = "php" THEN "$_SERVER[\"REQUEST_METHOD\"]"
    ELSE "function createWebInterface()"

\* the text the read loop of a language is recognised by
ReadLoopMark(language) ==
    IF language = "python" THEN "def run_cli():"
    ELSE IF language = "php" THEN "fgets(STDIN)"
    ELSE "function runCli()"

\* C8: in every language, when web_ui and cli are both set the output holds
\* the web bootstrap, the read loop and a dispatch on the explicit --cli flag
\* (command line with the flag, web without it).
C8_DualModeDispatch ==
    (pc = "done" /\ invoked \cap Composers # {} /\ params.web_ui
         /\ params.cli) =>
        /\ result.type = "str"
        /\ In(WebBootstrapMark(params.language), result.value)
        /\ In(ReadLoopMark(params.language), result.value)
        /\ In("--cli", result.value)

\* C9: a call of generate_code returns what every earlier call of this
\* process with the same task text and credential returned, whatever calls
\* came between.
C9_Deterministic ==
    pc = "done" =>
        \A i \in 1..Len(log) :
            (log[i].task_input = task_input /\ log[i].api_key = api_key)
                => log[i].result = result

\* the same text and credential again, a call on another input between
C9_Witness ==
    /\ pc = "done"
    /\ Len(log) = 2
    /\ log[1].task_input = task_input /\ log[1].api_key = api_key
    /\ log[2].task_input # task_input
    /\ IsProgram(result)
    /\ log[1].result = result

\* the sublists of a feature list
SubLists(fs) ==
    {SelectSeq(fs, LAMBDA f : f \in S) :
        S \in SUBSET {fs[i] : i \in 1..Len(fs)}}

\* the code blocks of a feature in a language: its methods, and for memory
\* the auxiliary type and the integration methods
FeatureBlocks(language, f) ==
    IF language = "python" THEN
        IF f = "memory"
        THEN {join("\n", PyMemoryIntegration), FEATURE_HANDLERS[f].functions}
        ELSE {join("\n", PyIndentedFunctions(f))}
    ELSE IF language = "php" THEN
        IF f = "file_handling" THEN {PhpFileHandlingMethods}
        ELSE IF f = "memory" THEN {PhpMemoryMethods}
        ELSE {}
    ELSE {}

\* C10: with language, provider, model, web_ui and cli equal and F1 a
\* sublist of the features F2, every feature block in the output composed
\* for F1 is in the output composed for F2.  (F2 is params.features and the
\* output for it is result; F1 = F2 gives the same output and is left out.)
C10_Monotone ==
    (pc = "done" /\ invoked \cap Composers # {}) =>
        \A F1 \in SubLists(params.features) \ {params.features} :
            LET out1 == compose([params EXCEPT !.features = F1], api_key) IN
            \A i \in 1..Len(F1) :
                \A b \in FeatureBlocks(params.language, F1[i]) :
                    In(b, out1.value) => In(b, result.value)

\* two features requested, the block of one of them in the output
C10_Witness ==
    /\ pc = "done"
    /\ params.language = "php"
    /\ params.features = <<"file_handling", "memory">>
    /\ In(PhpMemoryMethods,
          compose([params EXCEPT !.features = <<"memory">>], api_key).value)
    /\ In(PhpMemoryMethods, result.value)

\* the canonical feature list and the keyword list of each feature
CanonicalFeatures == <<"file_handling", "memory", "api_integration">>

FeatureKeywords(f) ==
    IF f = "file_handling" THEN FileKeywords
    ELSE IF f = "memory" THEN MemoryKeywords
    ELSE ApiKeywords

\* the place of a feature id in the canonical list
Rank(f) == CHOOSE i \in 1..Len(CanonicalFeatures) : CanonicalFeatures[i] = f

\* C11: for every task text, the features parse_tasks returns hold only ids
\* of {file_handling, memory, api_integration}, hold no id twice, stand in the
\* canonical order file_handling, memory, api_integration whatever the order
\* of the keywords in the text, and hold a feature exactly when one of its
\* keywords occurs in the lower-cased text.
C11_FeaturesCanonical ==
    Parsed =>
        LET fs == params.features
            t  == lower(task_input)
        IN  /\ \A i \in 1..Len(fs) : Has(CanonicalFeatures, fs[i])
            /\ \A i, j \in 1..Len(fs) : i < j => Rank(fs[i]) < Rank(fs[j])
            /\ \A n \in 1..Len(CanonicalFeatures) :
                   Has(fs, CanonicalFeatures[n])
                       <=> AnyIn(FeatureKeywords(CanonicalFeatures[n]), t)

\* the memory keyword stands before the file keyword in the text
C11_Witness ==
    /\ pc = "parsed"
    /\ task_input = "memory file"
    /\ params.features = <<"file_handling", "memory">>

\* the fragments the code holds for a feature in a language, as a composer
\* would emit them; empty where the code holds none
Fragments(language, f) ==
    IF language = "javascript" THEN
        IF f = "file_handling" THEN {JsFileHandlingMethods}
        ELSE IF f = "memory" THEN {JsMemoryMethods}
        ELSE {}
    ELSE FeatureBlocks(language, f)

\* C12: for every feature of {file_handling, memory, api_integration} and
\* every language of {python, php, javascript} a fragment exists, and the
\* composer of the language emits it when the feature is in params.features:
\* no requested feature is missing from the output.
C12_RegistryTotal ==
    (pc = "done" /\ invoked \cap Composers # {}) =>
        \A i \in 1..Len(params.features) :
            LET B == Fragments(params.language, params.features[i]) IN
            /\ B # {}
            /\ result.type = "str"
            /\ \A b \in B : In(b, result.value)

\* C13: no call of parse_tasks, generate_code or a composer changes AI_MODELS
\* or FEATURE_HANDLERS, and under every interleaving of concurrent requests
\* the value a request returns is the value generate_code returns for its
\* text and credential when run alone.
C13_RequestIsolation ==
    /\ AI_MODELS = AI_MODELS_0
    /\ FEATURE_HANDLERS = FEATURE_HANDLERS_0
    /\ \A r \in DOMAIN requests :
           requests[r].pc = "done" =>
               requests[r].result =
                   generate_code(requests[r].task_input,
                                 requests[r].api_key).result

\* two requests that overlapped, both returned with a program
C13_Witness ==
    /\ requests[1].pc = "done" /\ requests[2].pc = "done"
    /\ requests[1].overlap \/ requests[2].overlap
    /\ requests[1].task_input # requests[2].task_input
    /\ IsProgram(requests[1].result) /\ IsProgram(requests[2].result)

MainGuard == "if __name__ == \"__main__\":"

\* the body of the "__main__" block of a Python program: the text after the
\* last guard line
MainBlock(text) ==
    LET occ == Occurrences(MainGuard, text)
        at  == CHOOSE m \in occ : \A x \in occ : x <= m
    IN  IF occ = {} THEN "" ELSE SubSeq(text, at + Len(MainGuard), Len(text))

\* C14: the Python composer chooses the entry point by (web_ui, cli).  Both:
\* run_cli() when the first argument is '--cli', create_web_interface()
\* otherwise.  web_ui only: create_web_interface() and no run_cli
\* definition.  cli only: run_cli() and no create_web_interface definition.
\* Neither: one call of ask with the fixed greeting, its result printed.
\* The "__main__" block is never empty.
C14_EntryPoint ==
    (pc = "done" /\ "generate_python_code" \in invoked) =>
        LET out  == result.value
            main == MainBlock(out)
        IN  /\ strip(main) # ""
            /\ (params.web_ui /\ params.cli) =>
                   /\ main = "\n    if len(sys.argv) > 1 and sys.argv[1] == '--cli':"
                               \o "\n        run_cli()"
                               \o "\n    else:"
                               \o "\n        create_web_interface()"
                   /\ In("def run_cli():", out)
                   /\ In("def create_web_interface():", out)
            /\ (params.web_ui /\ ~params.cli) =>
                   /\ main = "\n    create_web_interface()"
                   /\ In("def create_web_interface():", out)
                   /\ ~In("def run_cli", out)
            /\ (~params.web_ui /\ params.cli) =>
                   /\ main = "\n    run_cli()"
                   /\ In("def run_cli():", out)
                   /\ ~In("def create_web_interface", out)
            /\ (~params.web_ui /\ ~params.cli) =>
                   /\ main = "\n    assistant = AIAssistant(api_key)"
                               \o "\n    response = assistant.ask(\"Hallo, wie geht es dir?\")"
                               \o "\n    print(f\"Antwort: {response}\")"
                   /\ ~In("def run_cli", out)
                   /\ ~In("def create_web_interface", out)

\* neither mode requested: the smoke-test entry point
C14_Witness ==
    /\ pc = "done"
    /\ "generate_python_code" \in invoked
    /\ ~params.web_ui /\ ~params.cli
    /\ In("response = assistant.ask(\"Hallo, wie geht es dir?\")",
          MainBlock(result.value))

\* the sections of a Python program in their order: header comment, imports,
\* setup, auxiliary memory type, assistant body, entry point; the memory type
\* is empty when memory is not a feature
PySections(p, k) ==
    <<join("\n", SubSeq(PyAllSections(p, k), 1, 4)),
      PyImportSection(p),
      join("\n", PySetupCode(k)),
      join("\n", PyMemoryClass(p)),
      join("\n", PyAssistantClass(p)),
      join("\n", PyMainCode(p))>>

\* C15: the output of the Python composer is its sections in the fixed order,
\* the memory type only if memory is a feature, every two consecutive emitted
\* sections separated by exactly one blank line, with and without memory.
C15_SectionLayout ==
    (pc = "done" /\ "generate_python_code" \in invoked) =>
        result.value =
            join("\n\n", SelectSeq(PySections(params, api_key),
                                   LAMBDA sec : sec # ""))

Placeholders == {"{model}", "{temperature}", "{system_prompt}", "{user_input}"}

\* the AI-call method of a Python program: from its def line to the blank
\* line that ends it
AskMethod(text) ==
    LET from == SetMin(Occurrences("    def ask(self, user_input", text))
        rest == SubSeq(text, from, Len(text))
        ends == Occurrences("\n\n", rest)
    IN  IF ends = {} THEN rest ELSE SubSeq(rest, 1, SetMin(ends) - 1)

\* C16: in the AI-call method the Python composer emits, for every provider
\* and model, {model} is replaced by params.model and none of the four
\* placeholders {model}, {temperature}, {system_prompt}, {user_input} remains.
C16_PlaceholdersSubstituted ==
    (pc = "done" /\ "generate_python_code" \in invoked) =>
        LET ask == AskMethod(result.value) IN
        /\ In(params.model, ask)
        /\ \A ph \in Placeholders : ~In(ph, ask)

\* the assistant class of a Python program: from its class line to the blank
\* line before the main section
ClassRegion(text) ==
    LET from == SetMin(Occurrences("\nclass AIAssistant:", text))
        to   == SetMin(Occurrences("\n\n# Hauptfunktion", text))
    IN  SubSeq(text, from, to)

\* the number of methods a feature adds to the assistant class
MethodCount(f) ==
    IF f = "memory" THEN 2
    ELSE Cardinality(Occurrences("def ", FEATURE_HANDLERS[f].functions))

RECURSIVE Sum(_)
Sum(ns) == IF ns = <<>> THEN 0 ELSE Head(ns) + Sum(Tail(ns))

\* C17: the Python composer emits the ConversationMemory type exactly once,
\* unindented and before the assistant class, if and only if memory is a
\* feature; then the assistant class gets exactly the two methods
\* initialize_memory and ask_with_memory, and the memory fragment is not
\* merged into the class.  The code of every other feature is in the class,
\* each line indented by one level.
C17_MemorySpecialCase ==
    (pc = "done" /\ "generate_python_code" \in invoked) =>
        LET out == result.value
            cls == ClassRegion(out)
            mem == Has(params.features, "memory")
            fs  == params.features
        IN  /\ Cardinality(Occurrences("class ConversationMemory", out))
                   = IF mem THEN 1 ELSE 0
            /\ mem => In("\n\n" \o FEATURE_HANDLERS["memory"].functions
                             \o "\n\nclass AIAssistant:", out)
            /\ ~In("class ConversationMemory", cls)
            /\ Cardinality(Occurrences("\n    def initialize_memory(self", cls))
                   = IF mem THEN 1 ELSE 0
            /\ Cardinality(Occurrences("\n    def ask_with_memory(self", cls))
                   = IF mem THEN 1 ELSE 0
            /\ Cardinality(Occurrences("def ", cls))
                   = 2 + Sum([i \in 1..Len(fs) |-> MethodCount(fs[i])])
            /\ \A i \in 1..Len(fs) :
                   fs[i] # "memory" =>
                       In("\n" \o join("\n", PyIndentedFunctions(fs[i])), cls)

\* memory requested together with another feature
C17_Witness ==
    /\ pc = "done"
    /\ "generate_python_code" \in invoked
    /\ params.features = <<"file_handling", "memory">>
    /\ In("\nclass ConversationMemory:", result.value)
    /\ In("\n    def save_uploaded_file(file):", ClassRegion(result.value))

\* C18: every model of every provider's list can be selected: a text that
\* names a model of the chosen provider, and names no other model of the list
\* except inside that name, makes parse_tasks return that model.  A text
\* naming gpt-4o yields gpt-4o, not gpt-4.
C18_NamedModelSelected ==
    Parsed =>
        LET t      == lower(task_input)
            models == AI_MODELS[params.api].models
        IN  \A i \in 1..Len(models) :
                (/\ In(lower(models[i]), t)
                 /\ \A j \in 1..Len(models) :
                        (j # i /\ In(lower(models[j]), t))
                            => In(lower(models[j]), lower(models[i])))
                    => params.model = models[i]

\* C19: load_config never raises, and when the merge of the user
\* configuration fails (a user value is a dict under a key whose default is
\* not a dict, other keys having been merged before) it returns the default
\* configuration unchanged: no default has been overwritten.
C19_DefaultsOnFailure ==
    config.pc = "done" =>
        /\ config.call.escaped = "none"
        /\ config.call.error # "none" => config.call.returned = default_config
=============================================================================
